---- MODULE Spec2Model ----
(***************************************************************************)
(* The Ace kernel (src/src/Kernel/index.ts): command registration with     *)
(* structural validation, global flag registration and firing, lookup,     *)
(* and the dispatch pipeline of Kernel.handle.                              *)
(*                                                                         *)
(* Strings are sequences of one-character strings, so that startsWith and  *)
(* the option syntax are computed and not looked up.  JavaScript values    *)
(* are records tagged by the field t.  A JavaScript object is the sequence *)
(* of its own entries in insertion order.                                  *)
(***************************************************************************)
EXTENDS Integers, Sequences, FiniteSets, TLC

VARIABLES
    commands,   \* Kernel.commands: own entries, in insertion order
    flags,      \* Kernel.flags: own entries, in insertion order
    displaced,  \* history: per registry key, what the stored value displaced
    call,       \* the latest call made on the kernel, with its arguments
    result,     \* how that call ended: returned a value or threw an error
    trace,      \* what that call did, in order (lookup, parse, handlers, ...)
    argvNow     \* the caller's argv array as that call left it

vars == <<commands, flags, displaced, call, result, trace, argvNow>>

----------------------------------------------------------------------------
(* Bounds *)

MaxArgs == 3        \* longest argument list drawn for a Command Type
MaxBatch == 2       \* longest batch handed to register
MaxArgv == 3        \* longest argv handed to handle
MaxFindArgv == 2    \* longest argv handed to find

----------------------------------------------------------------------------
(* Strings *)

StartsWith(s, p) ==
    /\ Len(s) >= Len(p)
    /\ SubSeq(s, 1, Len(p)) = p

IndexOf(s, ch) ==
    IF \E i \in 1..Len(s) : s[i] = ch
    THEN CHOOSE i \in 1..Len(s) : s[i] = ch /\ \A j \in 1..(i - 1) : s[j] # ch
    ELSE 0

EmptyString == <<>>
Dash == <<"-">>
sGreet == <<"g", "r", "e", "e", "t">>
sDashG == <<"-", "g">>
sMake == <<"m", "a", "k", "e">>
sConstructor == <<"c", "o", "n", "s", "t", "r", "u", "c", "t", "o", "r">>
sToString == <<"t", "o", "S", "t", "r", "i", "n", "g">>
sValueOf == <<"v", "a", "l", "u", "e", "O", "f">>
sX == <<"x">>
sEnv == <<"e", "n", "v">>
sF == <<"f">>
sUnderscore == <<"_">>
sParsed == <<"p", "a", "r", "s", "e", "d">>
sEnvEqP == <<"-", "-", "e", "n", "v", "=", "p">>
sEnvEq == <<"-", "-", "e", "n", "v", "=">>
sDashDashF == <<"-", "-", "f">>

----------------------------------------------------------------------------
(* JavaScript values and objects *)

Undefined == [t |-> "undefined"]
Null == [t |-> "null"]
JsString(s) == [t |-> "string", v |-> s]
JsBoolean(b) == [t |-> "boolean", v |-> b]
JsNumber(n) == [t |-> "number", v |-> n]
JsArray(a) == [t |-> "array", v |-> a]
JsObject(o) == [t |-> "object", v |-> o]
BuiltinFunction(k) == [t |-> "function", builtin |-> k]

EmptyObject == <<>>

HasOwn(obj, k) == \E i \in 1..Len(obj) : obj[i].key = k

OwnGet(obj, k) == obj[CHOOSE i \in 1..Len(obj) : obj[i].key = k].value

\* the own keys listed last to first
ObjectKeysReversed(obj) == [i \in 1..Len(obj) |-> obj[Len(obj) + 1 - i].key]

\* Object.keys(obj): the own keys in enumeration order
ObjectKeys(obj) == [i \in 1..Len(obj) |-> obj[i].key]

DecimalDigits == <<"0", "1", "2", "3", "4", "5", "6", "7", "8", "9">>

IsDigit(ch) == \E d \in 1..Len(DecimalDigits) : DecimalDigits[d] = ch

DigitValue(ch) == (CHOOSE d \in 1..Len(DecimalDigits) : DecimalDigits[d] = ch) - 1

\* a property key that is an array index: the canonical decimal text of a
\* non-negative integer ("0", "2", "10", but not "02" and not "")
IsArrayIndex(k) ==
    /\ Len(k) > 0
    /\ \A i \in 1..Len(k) : IsDigit(k[i])
    /\ Len(k) > 1 => k[1] # "0"

RECURSIVE IndexValue(_)
IndexValue(k) ==
    IF Len(k) = 0 THEN 0
    ELSE IndexValue(SubSeq(k, 1, Len(k) - 1)) * Len(DecimalDigits) + DigitValue(k[Len(k)])

\* whether the new key k is enumerated before the own key there
EnumeratedBefore(k, there) ==
    /\ IsArrayIndex(k)
    /\ IsArrayIndex(there) => IndexValue(k) < IndexValue(there)

\* obj[k] = v, the entries kept in the order in which the engine enumerates
\* own string keys: an existing key keeps its place; a new key that is an
\* array index goes among the array indices, in ascending numeric order, ahead
\* of every other key; any other new key goes last
Put(obj, k, v) ==
    IF HasOwn(obj, k)
    THEN [i \in 1..Len(obj) |->
            IF obj[i].key = k THEN [key |-> k, value |-> v] ELSE obj[i]]
    ELSE LET ahead == { i \in 1..Len(obj) : ~EnumeratedBefore(k, obj[i].key) }
             n == Cardinality(ahead)
         IN  SubSeq(obj, 1, n) \o <<[key |-> k, value |-> v]>> \o SubSeq(obj, n + 1, Len(obj))

\* Properties every object literal inherits from Object.prototype
ObjectPrototypeKeys == {sConstructor, sToString, sValueOf}

\* obj[k] read: own property, else the inherited one, else undefined
Get(obj, k) ==
    IF HasOwn(obj, k) THEN OwnGet(obj, k)
    ELSE IF k \in ObjectPrototypeKeys THEN BuiltinFunction(k)
    ELSE Undefined

\* JavaScript truthiness of the values that occur here
Truthy(val) ==
    CASE val.t = "undefined" -> FALSE
      [] val.t = "null" -> FALSE
      [] val.t = "string" -> Len(val.v) > 0
      [] val.t = "boolean" -> val.v
      [] val.t = "number" -> val.v # 0
      [] OTHER -> TRUE

\* Object.assign(target, source) on records
ObjectAssign(target, source) ==
    [f \in (DOMAIN target) \cup (DOMAIN source) |->
        IF f \in DOMAIN source THEN source[f] ELSE target[f]]

----------------------------------------------------------------------------
(* Command Types *)

CommandArg(name, required, type) == [name |-> name, required |-> required, type |-> type]

CommandFlag(name, type) == [name |-> name, type |-> type]

CommandType(cls, commandName, args, cmdFlags, body) ==
    [t |-> "class", cls |-> cls, commandName |-> commandName,
     args |-> args, flags |-> cmdFlags, body |-> body]

ArgTypes == {"string", "spread"}

Digits == <<"1", "2", "3", "4", "5", "6", "7", "8", "9">>

ArgNameAt(i) == <<"a", Digits[i]>>

\* every argument list of length n: each argument required or optional,
\* a plain value or a spread
ArgListsOfLen(n) ==
    { [i \in 1..n |-> CommandArg(ArgNameAt(i), rq[i], ty[i])] :
        rq \in [1..n -> BOOLEAN], ty \in [1..n -> ArgTypes] }

ArgLists == UNION { ArgListsOfLen(n) : n \in 0..MaxArgs }

\* Command Types of every argument shape, named and unnamed
ShapedCommands ==
    { CommandType("Shaped", nm, args, <<>>, "resolves") :
        nm \in {EmptyString, sMake}, args \in ArgLists }

----------------------------------------------------------------------------
(* Errors and outcomes *)

NoError == [t |-> "none"]

ConfigurationError(message) == [t |-> "error", kind |-> "ConfigurationError", message |-> message]

UnknownCommandError(name) == [t |-> "error", kind |-> "UnknownCommandError", name |-> name]

Returned(val) == [status |-> "returned", value |-> val]

Threw(err) == [status |-> "threw", error |-> err]

----------------------------------------------------------------------------
(* Kernel._validateCommand *)

\* the loop without its first check (optional before required)
ArgsLoopNoOrderCheck(args, index, optionalArg) ==
    IF \E i \in 1..Len(args) : args[i].type = "spread" /\ Len(args) > i
    THEN ConfigurationError(<<"spread arguments must be last">>)
    ELSE NoError

\* the loop without its second check (spread must be last)
ArgsLoopNoSpreadCheck(args, index, optionalArg) ==
    IF \E i, j \in 1..Len(args) : i < j /\ ~args[i].required /\ args[j].required
    THEN ConfigurationError(<<"option argument must be after required argument">>)
    ELSE NoError

\* command.args.forEach((arg, index) => ...), from the 1-based index on,
\* optionalArg being the closure variable of the callback
RECURSIVE ArgsLoop(_, _, _)
ArgsLoop(args, index, optionalArg) ==
    IF index > Len(args) THEN NoError
    ELSE LET arg == args[index] IN
         IF optionalArg # Undefined /\ arg.required
         THEN ConfigurationError(<<"option argument must be after required argument",
                                   optionalArg.name, arg.name>>)
         ELSE IF arg.type = "spread" /\ Len(args) > index
         THEN ConfigurationError(<<"spread arguments must be last">>)
         ELSE ArgsLoop(args, index + 1,
                       IF ~arg.required THEN arg ELSE optionalArg)

ValidateCommand(command) ==
    IF ~Truthy(JsString(command.commandName))
    THEN ConfigurationError(<<"missing command name", command.cls>>)
    ELSE ArgsLoop(command.args, 1, Undefined)

----------------------------------------------------------------------------
(* Kernel.register *)

This == [t |-> "this"]

\* no call is in progress and the outcome of the last one has been taken
Idle == [op |-> "idle"]

\* commands.forEach((command) => { validate; store }), from the k-th element
\* on; a throw leaves the loop with what was stored so far
\* the loop going on past a Command Type that fails validation
RECURSIVE RegisterLoopGoesOn(_, _, _)
RegisterLoopGoesOn(cmds, batch, k) ==
    IF k > Len(batch) THEN [commands |-> cmds, error |-> NoError]
    ELSE LET command == batch[k]
             err == ValidateCommand(command)
             rest == RegisterLoopGoesOn(
                        IF err = NoError THEN Put(cmds, command.commandName, command)
                        ELSE cmds,
                        batch, k + 1)
         IN  [commands |-> rest.commands,
              error |-> IF err # NoError THEN err ELSE rest.error]

\* the loop keeping the Command Type a name already has
RECURSIVE RegisterLoopKeepsFirst(_, _, _)
RegisterLoopKeepsFirst(cmds, batch, k) ==
    IF k > Len(batch) THEN [commands |-> cmds, error |-> NoError]
    ELSE LET command == batch[k]
             err == ValidateCommand(command)
         IN  IF err # NoError
             THEN [commands |-> cmds, error |-> err]
             ELSE RegisterLoopKeepsFirst(
                    IF HasOwn(cmds, command.commandName) THEN cmds
                    ELSE Put(cmds, command.commandName, command),
                    batch, k + 1)

\* the loop storing every Command Type without validating it
RECURSIVE RegisterLoopStoresUnvalidated(_, _, _)
RegisterLoopStoresUnvalidated(cmds, batch, k) ==
    IF k > Len(batch) THEN [commands |-> cmds, error |-> NoError]
    ELSE RegisterLoopStoresUnvalidated(Put(cmds, batch[k].commandName, batch[k]),
                                       batch, k + 1)

RECURSIVE RegisterLoop(_, _, _)
RegisterLoop(cmds, batch, k) ==
    IF k > Len(batch) THEN [commands |-> cmds, error |-> NoError]
    ELSE LET command == batch[k]
             err == ValidateCommand(command)
         IN  IF err # NoError
             THEN [commands |-> cmds, error |-> err]
             ELSE RegisterLoop(Put(cmds, command.commandName, command), batch, k + 1)

\* history kept beside a registry: under each key, the identity of the value
\* that the value stored now displaced ("none" while nothing else was there)
\* The keys of a history stay in the order of their first store.
Noted(history, key, v) ==
    IF HasOwn(history, key)
    THEN [i \in 1..Len(history) |->
            IF history[i].key = key THEN [key |-> key, value |-> v] ELSE history[i]]
    ELSE Append(history, [key |-> key, value |-> v])

NoteStore(history, key, hadOld, old, new) ==
    IF hadOld /\ old # new THEN Noted(history, key, old)
    ELSE IF HasOwn(history, key) THEN history
    ELSE Noted(history, key, "none")

\* the history of the stores register(batch) has made once it is at element k
RECURSIVE NoteRegister(_, _, _, _)
NoteRegister(history, cmds, batch, k) ==
    IF k > Len(batch) \/ ValidateCommand(batch[k]) # NoError THEN history
    ELSE LET name == batch[k].commandName IN
         NoteRegister(
            NoteStore(history, name, HasOwn(cmds, name),
                      IF HasOwn(cmds, name) THEN OwnGet(cmds, name).cls ELSE "none",
                      batch[k].cls),
            Put(cmds, name, batch[k]), batch, k + 1)

Register(batch) ==
    LET out == RegisterLoop(commands, batch, 1) IN
    /\ call = Idle
    /\ commands' = out.commands
    /\ displaced' = [displaced EXCEPT
                        !.commands = NoteRegister(@, commands, batch, 1)]
    /\ call' = [op |-> "register", batch |-> batch]
    /\ result' = IF out.error = NoError THEN Returned(This) ELSE Threw(out.error)
    /\ trace' = <<>>
    /\ argvNow' = <<>>
    /\ UNCHANGED flags

----------------------------------------------------------------------------
(* Kernel.flag *)

\* the registration a name already has is kept
FlagRegistrationKeepsFirst(name, handler, options) ==
    IF HasOwn(flags, name) THEN OwnGet(flags, name)
    ELSE ObjectAssign([name |-> name, handler |-> handler, type |-> "boolean"], options)

\* Object.assign({ name, handler, type: 'boolean' }, options)
FlagRegistration(name, handler, options) ==
    ObjectAssign([name |-> name, handler |-> handler, type |-> "boolean"], options)

Flag(name, handler, options) ==
    /\ call = Idle
    /\ flags' = Put(flags, name, FlagRegistration(name, handler, options))
    /\ displaced' = [displaced EXCEPT
                        !.flags = NoteStore(@, name, HasOwn(flags, name),
                                            IF HasOwn(flags, name)
                                            THEN OwnGet(flags, name).handler
                                            ELSE "none",
                                            handler)]
    /\ call' = [op |-> "flag", name |-> name, handler |-> handler, options |-> options]
    /\ result' = Returned(This)
    /\ trace' = <<>>
    /\ argvNow' = <<>>
    /\ UNCHANGED commands

----------------------------------------------------------------------------
(* The Option Parser: parse(argv, command?) over the given flag specs *)

TypeError(what) == [t |-> "error", kind |-> "TypeError", what |-> what]

IsLongFlag(tok) == StartsWith(tok, <<"-", "-">>) /\ Len(tok) > 2

IsShortFlag(tok) == StartsWith(tok, Dash) /\ Len(tok) > 1 /\ ~StartsWith(tok, <<"-", "-">>)

\* the text between the dashes and the first "=", if any
FlagNameOf(tok) ==
    LET body == IF IsLongFlag(tok) THEN SubSeq(tok, 3, Len(tok)) ELSE SubSeq(tok, 2, Len(tok))
        eq == IndexOf(body, "=")
    IN  IF eq = 0 THEN body ELSE SubSeq(body, 1, eq - 1)

\* the text after the first "=", undefined without one
RawValueOf(tok) ==
    LET eq == IndexOf(tok, "=")
    IN  IF eq = 0 THEN Undefined ELSE JsString(SubSeq(tok, eq + 1, Len(tok)))

\* the type the specs declare for a flag name (the last declaration wins)
DeclaredType(specs, name) ==
    IF \E i \in 1..Len(specs) : specs[i].name = name
    THEN specs[CHOOSE i \in 1..Len(specs) :
                 /\ specs[i].name = name
                 /\ \A j \in (i + 1)..Len(specs) : specs[j].name # name].type
    ELSE "undeclared"

FlagValue(type, raw) ==
    CASE type = "string" -> IF raw = Undefined THEN JsString(EmptyString) ELSE raw
      [] type = "boolean" -> JsBoolean(TRUE)
      [] OTHER -> IF raw = Undefined THEN JsBoolean(TRUE) ELSE raw

RECURSIVE ParseLoop(_, _, _, _)
ParseLoop(specs, argv, i, options) ==
    IF i > Len(argv) THEN options
    ELSE LET tok == argv[i] IN
         IF IsLongFlag(tok) \/ IsShortFlag(tok)
         THEN ParseLoop(specs, argv, i + 1,
                        Put(options, FlagNameOf(tok),
                            FlagValue(DeclaredType(specs, FlagNameOf(tok)), RawValueOf(tok))))
         ELSE ParseLoop(specs, argv, i + 1,
                        Put(options, sUnderscore,
                            JsArray(Append(OwnGet(options, sUnderscore).v, JsString(tok)))))

\* new Parser(registeredFlags).parse(argv, command): the specs are the global
\* flags, then the command's own flags
ParserParse(registeredFlags, argv, command) ==
    LET globalSpecs == [i \in 1..Len(registeredFlags) |->
                          CommandFlag(registeredFlags[i].value.name,
                                      registeredFlags[i].value.type)]
        specs == IF command = Undefined THEN globalSpecs
                 ELSE globalSpecs \o command.flags
    IN  ParseLoop(specs, argv, 1, Put(EmptyObject, sUnderscore, JsArray(<<>>)))

----------------------------------------------------------------------------
(* Kernel._executeGlobalFlagsHandlers *)

HandlerError(handler) == [t |-> "error", kind |-> "HandlerError", handler |-> handler]

\* the handlers the application registers; hFail raises when invoked
HandlerThrows(handler) == handler = "hFail"

\* the handler skipped whenever the parsed value is falsy
SkipsHandlerFalsy(value) == ~Truthy(value)

\* the two early returns of the forEach callback
SkipsHandler(value) ==
    \/ value = Undefined
    \/ (value.t \in {"string", "array"} /\ Len(value.v) = 0)

\* the loop catching the failure of a handler and going on
RECURSIVE FlagsLoopCatches(_, _, _, _, _)
FlagsLoopCatches(names, i, options, command, fired) ==
    IF i > Len(names) THEN [fired |-> fired, error |-> NoError]
    ELSE LET name == names[i]
             value == Get(options, name)
             handler == OwnGet(flags, name).handler
             event == [ev |-> "flag", name |-> name, handler |-> handler,
                       value |-> value, options |-> options, command |-> command]
         IN  IF SkipsHandler(value)
             THEN FlagsLoopCatches(names, i + 1, options, command, fired)
             ELSE FlagsLoopCatches(names, i + 1, options, command, Append(fired, event))

\* globalFlags.forEach((name) => ...), from the i-th name on
RECURSIVE FlagsLoop(_, _, _, _, _)
FlagsLoop(names, i, options, command, fired) ==
    IF i > Len(names) THEN [fired |-> fired, error |-> NoError]
    ELSE LET name == names[i]
             value == Get(options, name)
             handler == OwnGet(flags, name).handler
             event == [ev |-> "flag", name |-> name, handler |-> handler,
                       value |-> value, options |-> options, command |-> command]
         IN  IF SkipsHandler(value)
             THEN FlagsLoop(names, i + 1, options, command, fired)
             ELSE IF HandlerThrows(handler)
             THEN [fired |-> Append(fired, event), error |-> HandlerError(handler)]
             ELSE FlagsLoop(names, i + 1, options, command, Append(fired, event))

ExecuteGlobalFlagsHandlers(options, command) ==
    FlagsLoop(ObjectKeys(flags), 1, options, command, <<>>)

----------------------------------------------------------------------------
(* Kernel.getSuggestions *)

DefaultDistance == 3

Min(a, b) == IF a < b THEN a ELSE b

\* levenshtein.get(a, b): the edit distance of two strings
RECURSIVE Levenshtein(_, _)
Levenshtein(a, b) ==
    IF Len(a) = 0 THEN Len(b)
    ELSE IF Len(b) = 0 THEN Len(a)
    ELSE Min(Min(Levenshtein(Tail(a), b) + 1, Levenshtein(a, Tail(b)) + 1),
             Levenshtein(Tail(a), Tail(b)) + (IF Head(a) = Head(b) THEN 0 ELSE 1))

\* the parameter distance = 3
DistanceOrDefault(distance) ==
    IF distance = Undefined THEN DefaultDistance ELSE distance.v

\* the filter keeping the names nearer than the distance only
SuggestionsOfStrictlyNearer(name, distance) ==
    SelectSeq(ObjectKeys(commands),
              LAMBDA commandName :
                  Levenshtein(name, commandName) < DistanceOrDefault(distance))

\* Object.keys(this.commands).filter(...)
SuggestionsOf(name, distance) ==
    SelectSeq(ObjectKeys(commands),
              LAMBDA commandName :
                  Levenshtein(name, commandName) <= DistanceOrDefault(distance))

GetSuggestions(name, distance) ==
    /\ call = Idle
    /\ call' = [op |-> "getSuggestions", name |-> name, distance |-> distance]
    /\ result' = Returned(JsArray([i \in 1..Len(SuggestionsOf(name, distance)) |->
                                     JsString(SuggestionsOf(name, distance)[i])]))
    /\ trace' = <<>>
    /\ argvNow' = <<>>
    /\ UNCHANGED <<commands, flags, displaced>>

----------------------------------------------------------------------------
(* Kernel.find *)

FindCommand(argv) ==
    LET found == IF Len(argv) = 0 THEN Get(commands, <<"u", "n", "d", "e", "f", "i", "n", "e", "d">>)
                 ELSE Get(commands, argv[1])
    IN  IF Truthy(found) THEN found ELSE Null

Find(argv) ==
    /\ call = Idle
    /\ call' = [op |-> "find", argv |-> argv]
    /\ result' = Returned(FindCommand(argv))
    /\ trace' = <<>>
    /\ argvNow' = argv
    /\ UNCHANGED <<commands, flags, displaced>>

----------------------------------------------------------------------------
(* Kernel.handle *)

CommandError(cls) == [t |-> "error", kind |-> "CommandError", of |-> cls]

CommandResult(cls) == [t |-> "result", of |-> cls]

FindEvent(name, found) == [ev |-> "find", name |-> name, found |-> found]

ParseEvent(argv, command, options) ==
    [ev |-> "parse", argv |-> argv, command |-> command, options |-> options]

ParseThrewEvent(argv, command) == [ev |-> "parse threw", argv |-> argv, command |-> command]

NewEvent(command) == [ev |-> "new", command |-> command]

HandleEvent(command, instance) == [ev |-> "handle", command |-> command, instance |-> instance]

\* parsedOptions._[i], i counted from 1
ArrayAt(arr, i) == IF i <= Len(arr) THEN arr[i] ELSE Undefined

\* parsedOptions._.slice(i), i counted from 1
Slice(arr, i) == SubSeq(arr, i, Len(arr))

\* the loop treating a spread argument as a plain one
RECURSIVE PopulateArgsNoSpread(_, _, _, _)
PopulateArgsNoSpread(args, i, positionals, instance) ==
    IF i > Len(args) THEN instance
    ELSE PopulateArgsNoSpread(args, i + 1, positionals,
                              Put(instance, args[i].name, ArrayAt(positionals, i)))

\* for (let i = 0; i < command.args.length; i++) { ... }, from the i-th
\* argument on (counted from 1)
RECURSIVE PopulateArgs(_, _, _, _)
PopulateArgs(args, i, positionals, instance) ==
    IF i > Len(args) THEN instance
    ELSE LET arg == args[i] IN
         IF arg.type = "spread"
         THEN Put(instance, arg.name, JsArray(Slice(positionals, i)))
         ELSE PopulateArgs(args, i + 1, positionals,
                           Put(instance, arg.name, ArrayAt(positionals, i)))

\* command.flags.forEach((flag) => ...), from the i-th flag on
RECURSIVE PopulateFlags(_, _, _, _)
PopulateFlags(cmdFlags, i, options, instance) ==
    IF i > Len(cmdFlags) THEN instance
    ELSE PopulateFlags(cmdFlags, i + 1, options,
                       Put(instance, cmdFlags[i].name, Get(options, cmdFlags[i].name)))

\* new command() and the population of the instance
MakeInstance(command, parsedOptions) ==
    PopulateFlags(command.flags, 1, parsedOptions,
        PopulateArgs(command.args, 1, OwnGet(parsedOptions, sUnderscore).v,
            Put(EmptyObject, sParsed, JsObject(parsedOptions))))

\* commandInstance.handle(), whose outcome the async handle settles with
InvokeCommand(command) ==
    IF command.body = "resolves" THEN Returned(CommandResult(command.cls))
    ELSE Threw(CommandError(command.cls))

Outcome(res, tr, argv) == [result |-> res, trace |-> tr, argv |-> argv]

\* the global flags fired once the instance is constructed
RunCommandFiresLate(argv, command, parsedOptions, before) ==
    LET fire == ExecuteGlobalFlagsHandlers(parsedOptions, command)
        instance == MakeInstance(command, parsedOptions)
    IN  IF fire.error # NoError
        THEN Outcome(Threw(fire.error),
                     before \o <<NewEvent(command)>> \o fire.fired, argv)
        ELSE Outcome(InvokeCommand(command),
                     before \o <<NewEvent(command)>> \o fire.fired
                        \o <<HandleEvent(command, instance)>>,
                     argv)

\* the failure of the command body caught and replaced by one of the kernel
RunCommandWrapsFailure(argv, command, parsedOptions, before) ==
    LET fire == ExecuteGlobalFlagsHandlers(parsedOptions, command)
        instance == MakeInstance(command, parsedOptions)
        outcome == InvokeCommand(command)
    IN  IF fire.error # NoError
        THEN Outcome(Threw(fire.error), before \o fire.fired, argv)
        ELSE Outcome(IF outcome.status = "threw"
                     THEN Threw([t |-> "error", kind |-> "KernelError", cause |-> outcome.error])
                     ELSE outcome,
                     before \o fire.fired
                        \o <<NewEvent(command), HandleEvent(command, instance)>>,
                     argv)

\* handle from the firing of the global flags on, for a Command Type
RunCommand(argv, command, parsedOptions, before) ==
    LET fire == ExecuteGlobalFlagsHandlers(parsedOptions, command)
        instance == MakeInstance(command, parsedOptions)
    IN  IF fire.error # NoError
        THEN Outcome(Threw(fire.error), before \o fire.fired, argv)
        ELSE Outcome(InvokeCommand(command),
                     before \o fire.fired
                        \o <<NewEvent(command), HandleEvent(command, instance)>>,
                     argv)

\* the same for a value found under argv[0] that is no Command Type: a
\* property commands inherits from Object.prototype
RunInherited(argv, command, rest, parserRejects, before) ==
    LET parsedOptions == ParserParse(flags, rest, Undefined)
        fire == ExecuteGlobalFlagsHandlers(parsedOptions, command)
        parsing == <<ParseEvent(rest, command, parsedOptions)>>
    IN  IF parserRejects
        THEN Outcome(Threw(TypeError("command.flags")),
                     before \o <<ParseThrewEvent(rest, command)>>, argv)
        ELSE IF fire.error # NoError
        THEN Outcome(Threw(fire.error), before \o parsing \o fire.fired, argv)
        ELSE IF command.builtin # sConstructor
        THEN Outcome(Threw(TypeError("not a constructor")),
                     before \o parsing \o fire.fired, argv)
        ELSE Outcome(Threw(TypeError("command.args")),
                     before \o parsing \o fire.fired \o <<NewEvent(command)>>, argv)

\* handle when no command is mentioned, from the parse result on
RunFlagsOnlyParsed(argv, parsedOptions) ==
    LET fire == ExecuteGlobalFlagsHandlers(parsedOptions, Undefined)
    IN  Outcome(IF fire.error = NoError THEN Returned(Undefined) ELSE Threw(fire.error),
                <<ParseEvent(argv, Undefined, parsedOptions)>> \o fire.fired, argv)

\* handle when no command is mentioned: argv[0] starts with "-"
RunFlagsOnly(argv) == RunFlagsOnlyParsed(argv, ParserParse(flags, argv, Undefined))

\* handle when argv[0] mentions a command; argv.splice(1) leaves the
\* caller's array with its first element only
RunMentioned(argv, parserRejects) ==
    LET command == FindCommand(argv)
        rest == Tail(argv)
        spliced == <<argv[1]>>
        parsedOptions == ParserParse(flags, rest, command)
    IN  IF ~Truthy(command)
        THEN Outcome(Threw(UnknownCommandError(argv[1])),
                     <<FindEvent(argv[1], FALSE)>>, argv)
        ELSE IF command.t # "class"
        THEN RunInherited(spliced, command, rest, parserRejects,
                          <<FindEvent(argv[1], TRUE)>>)
        ELSE RunCommand(spliced, command, parsedOptions,
                        <<FindEvent(argv[1], TRUE),
                          ParseEvent(rest, command, parsedOptions)>>)

\* handle without its first check: argv[0] is read from an empty argv
HandleRunNoEmptyCheck(argv, parserRejects) ==
    IF Len(argv) = 0
    THEN Outcome(Threw(TypeError("argv[0].startsWith")), <<>>, argv)
    ELSE IF StartsWith(argv[1], Dash)
    THEN RunFlagsOnly(argv)
    ELSE RunMentioned(argv, parserRejects)

\* handle without the flags-only path: argv[0] is always looked up
HandleRunAlwaysLooksUp(argv, parserRejects) ==
    IF Len(argv) = 0
    THEN Outcome(Returned(Undefined), <<>>, argv)
    ELSE RunMentioned(argv, parserRejects)

HandleRun(argv, parserRejects) ==
    IF Len(argv) = 0
    THEN Outcome(Returned(Undefined), <<>>, argv)
    ELSE IF StartsWith(argv[1], Dash)
    THEN RunFlagsOnly(argv)
    ELSE RunMentioned(argv, parserRejects)

Handle(argv, parserRejects) ==
    LET out == HandleRun(argv, parserRejects) IN
    /\ call = Idle
    /\ call' = [op |-> "handle", argv |-> argv]
    /\ result' = out.result
    /\ trace' = out.trace
    /\ argvNow' = out.argv
    /\ UNCHANGED <<commands, flags, displaced>>

\* handle of a flags-only argv for which the Option Parser returns
\* parsedOptions: the parser is a collaborator, its result an input
HandleParsed(argv, parsedOptions) ==
    LET out == RunFlagsOnlyParsed(argv, parsedOptions) IN
    /\ call = Idle
    /\ Len(argv) > 0
    /\ StartsWith(argv[1], Dash)
    /\ call' = [op |-> "handle", argv |-> argv]
    /\ result' = out.result
    /\ trace' = out.trace
    /\ argvNow' = out.argv
    /\ UNCHANGED <<commands, flags, displaced>>

----------------------------------------------------------------------------
(* The application: its Command Types, global flags and command lines *)

sName == <<"n", "a", "m", "e">>
sAge == <<"a", "g", "e">>
sWho == <<"w", "h", "o">>
sRest == <<"r", "e", "s", "t">>

Greet == CommandType("Greet", sGreet,
                     <<CommandArg(sName, TRUE, "string"), CommandArg(sAge, TRUE, "string")>>,
                     <<CommandFlag(sEnv, "string")>>, "resolves")

Hello == CommandType("Hello", sGreet,
                     <<CommandArg(sWho, FALSE, "string"), CommandArg(sRest, FALSE, "spread")>>,
                     <<>>, "rejects")

DashCommand == CommandType("DashCommand", sDashG, <<>>, <<>>, "resolves")

NoName == CommandType("NoName", EmptyString, <<>>, <<>>, "resolves")

SpreadFirst == CommandType("SpreadFirst", sMake,
                           <<CommandArg(sRest, TRUE, "spread"), CommandArg(sName, TRUE, "string")>>,
                           <<>>, "resolves")

OptionalFirst == CommandType("OptionalFirst", sGreet,
                             <<CommandArg(sWho, FALSE, "string"), CommandArg(sName, TRUE, "string")>>,
                             <<>>, "resolves")

ProgramCommands == {Greet, Hello, DashCommand, NoName, SpreadFirst, OptionalFirst}

FlagCalls ==
    { [name |-> sEnv, handler |-> "h1", options |-> [type |-> "string"]],
      [name |-> sEnv, handler |-> "h2", options |-> [type |-> "string"]],
      [name |-> sF, handler |-> "hFail", options |-> [description |-> "fails"]] }

\* what a command line starts with, and what follows
FirstTokens == {sGreet, sDashG, sConstructor, sX, sEnvEqP, sDashDashF}

RestTokens == {sGreet, sX, sEnvEqP, sDashDashF}

\* what follows the first element of an argv handed to find
FindRestTokens == {sGreet, sX}

SeqsUpTo(S, n) == UNION { [1..k -> S] : k \in 0..n }

Argvs(rests, n) ==
    {<<>>} \cup { <<first>> \o rest :
                    first \in FirstTokens, rest \in SeqsUpTo(rests, n - 1) }

\* the command lines handed to handle, the one of a flag given an empty value
\* among them
HandleArgvs == Argvs(RestTokens, MaxArgv) \cup {<<sEnvEq>>}

FindArgvs == Argvs(FindRestTokens, MaxFindArgv)

Batches == SeqsUpTo(ProgramCommands, MaxBatch)

\* whether commands[argv[0]] is a property inherited from Object.prototype,
\* the one case in which the parser is handed a value that is no Command Type
FindsInherited(argv) ==
    /\ Len(argv) > 0
    /\ ~HasOwn(commands, argv[1])
    /\ argv[1] \in ObjectPrototypeKeys

sOne == <<"1">>
sTwo == <<"2">>

\* the global flags of an application that names two of them by a number
FiringFlagCalls ==
    { [name |-> sEnv, handler |-> "h1", options |-> [type |-> "string"]],
      [name |-> sF, handler |-> "hFail", options |-> [description |-> "fails"]],
      [name |-> sTwo, handler |-> "hTwo", options |-> [type |-> "boolean"]],
      [name |-> sOne, handler |-> "hOne", options |-> [type |-> "boolean"]] }

\* the values a parse result holds for a flag, undefined when it holds none
ParsedValues ==
    { Undefined, JsString(EmptyString), JsString(<<"p">>), JsArray(<<>>),
      JsArray(<<JsString(sX)>>), JsBoolean(FALSE), JsNumber(0) }

SuppliedValues == { Undefined, JsBoolean(TRUE) }

PutSupplied(obj, k, val) == IF val = Undefined THEN obj ELSE Put(obj, k, val)

\* parse results: the positionals, then the flags in the order of the command
\* line, which names them one way round or the other
ParsedOptionsOf(vEnv, vF, vOne, vTwo, envFirst) ==
    LET none == Put(EmptyObject, sUnderscore, JsArray(<<>>)) IN
    IF envFirst
    THEN PutSupplied(PutSupplied(PutSupplied(PutSupplied(none, sEnv, vEnv), sF, vF),
                                 sOne, vOne), sTwo, vTwo)
    ELSE PutSupplied(PutSupplied(PutSupplied(PutSupplied(none, sTwo, vTwo), sOne, vOne),
                                 sF, vF), sEnv, vEnv)

ParseResults ==
    { ParsedOptionsOf(vEnv, vF, vOne, vTwo, envFirst) :
        vEnv \in ParsedValues, vF \in ParsedValues,
        vOne \in SuppliedValues, vTwo \in SuppliedValues, envFirst \in BOOLEAN }

FiringArgv == <<sDashDashF>>

\* the names an error-reporting layer asks suggestions for, and how near
SuggestCalls ==
    { [name |-> name, distance |-> distance] :
        name \in {sGreet, sX}, distance \in {Undefined, JsNumber(0)} }

sA == <<"a">>
sAb == <<"a", "b">>
sTen == <<"1", "0">>
sAbcde == <<"a", "b", "c", "d", "e">>

\* an application whose commands have short names, two of them numbers
SuggestCommands ==
    { CommandType("Ab", sAb, <<>>, <<>>, "resolves"),
      CommandType("Two", sTwo, <<>>, <<>>, "resolves"),
      CommandType("Ten", sTen, <<>>, <<>>, "resolves"),
      CommandType("Abcde", sAbcde, <<>>, <<>>, "resolves") }

SuggestBatches == SeqsUpTo(SuggestCommands, MaxBatch)

NearCalls ==
    { [name |-> name, distance |-> distance] :
        name \in {sA, sTen}, distance \in {Undefined, JsNumber(0), JsNumber(1)} }

SuggestArgvs == { <<name>> : name \in {sA, sAb, sTen} }

\* the caller takes the outcome of a call and goes on to the next one
Continue ==
    /\ call # Idle
    /\ call' = Idle
    /\ result' = Returned(Undefined)
    /\ trace' = <<>>
    /\ argvNow' = <<>>
    /\ UNCHANGED <<commands, flags, displaced>>

----------------------------------------------------------------------------
(* Specifications *)

Init ==
    /\ commands = EmptyObject
    /\ flags = EmptyObject
    /\ displaced = [commands |-> EmptyObject, flags |-> EmptyObject]
    /\ call = Idle
    /\ result = Returned(Undefined)
    /\ trace = <<>>
    /\ argvNow = <<>>

Next ==
    \/ call = Idle /\ \E batch \in Batches : Register(batch)
    \/ call = Idle /\ \E fc \in FlagCalls : Flag(fc.name, fc.handler, fc.options)
    \/ call = Idle /\ \E argv \in FindArgvs : Find(argv)
    \/ call = Idle /\ \E argv \in HandleArgvs :
         \E parserRejects \in (IF FindsInherited(argv) THEN BOOLEAN ELSE {FALSE}) :
            Handle(argv, parserRejects)
    \/ call = Idle /\ \E sc \in SuggestCalls : GetSuggestions(sc.name, sc.distance)
    \/ Continue

Spec == Init /\ [][Next]_vars

\* register applied to one Command Type of every argument shape
NextValidate ==
    \/ call = Idle /\ \E command \in ShapedCommands : Register(<<command>>)
    \/ Continue

SpecValidate == Init /\ [][NextValidate]_vars

\* the firing of the global flags over the values a parse result can hold
NextFiring ==
    \/ call = Idle /\ \E fc \in FiringFlagCalls : Flag(fc.name, fc.handler, fc.options)
    \/ call = Idle /\ \E parsedOptions \in ParseResults :
                        HandleParsed(FiringArgv, parsedOptions)
    \/ Continue

SpecFiring == Init /\ [][NextFiring]_vars

\* suggestions asked of a registry of short names
NextSuggest ==
    \/ call = Idle /\ \E batch \in SuggestBatches : Register(batch)
    \/ call = Idle /\ \E nc \in NearCalls : GetSuggestions(nc.name, nc.distance)
    \/ call = Idle /\ \E argv \in SuggestArgvs : Handle(argv, FALSE)
    \/ Continue

SpecSuggest == Init /\ [][NextSuggest]_vars

----------------------------------------------------------------------------
(* Claims C1, C2: the argument shapes register accepts *)

ArgClass(arg) ==
    IF arg.type = "spread" THEN "spread"
    ELSE IF arg.required THEN "required" ELSE "optional"

\* required* optional* spread?
HasShape(args) ==
    \E r, o \in 0..Len(args) :
        /\ r + o <= Len(args)
        /\ \A i \in 1..r : ArgClass(args[i]) = "required"
        /\ \A i \in (r + 1)..(r + o) : ArgClass(args[i]) = "optional"
        /\ \/ Len(args) = r + o
           \/ Len(args) = r + o + 1 /\ ArgClass(args[Len(args)]) = "spread"

\* a trailing spread that is itself marked required, after an optional argument
RequiredSpreadAfterOptional(args) ==
    /\ Len(args) > 0
    /\ args[Len(args)].type = "spread"
    /\ args[Len(args)].required
    /\ \E i \in 1..(Len(args) - 1) : ~args[i].required

RegisteredOneNamed ==
    /\ call.op = "register"
    /\ Len(call.batch) = 1
    /\ call.batch[1].commandName # EmptyString

FailedWithConfigurationError ==
    /\ result.status = "threw"
    /\ result.error.kind = "ConfigurationError"

\* C1 as claimed: for a Command Type with a non-empty commandName, register
\* succeeds if and only if its argument list has the shape
\* required* optional* spread?, and fails with a ConfigurationError otherwise.
C1_AsClaimed ==
    RegisteredOneNamed =>
        /\ (result.status = "returned") <=> HasShape(call.batch[1].args)
        /\ (result.status # "returned") => FailedWithConfigurationError

\* C1 as amended: for a Command Type with a non-empty commandName, register
\* succeeds if and only if its argument list has the shape
\* required* optional* spread? and its trailing spread, when it is itself
\* marked required, follows no optional argument; every other list fails with
\* a ConfigurationError, and a successful register stores the Command Type.
C1_ShapeAccepted ==
    RegisteredOneNamed =>
        LET command == call.batch[1]
            accepted == HasShape(command.args) /\ ~RequiredSpreadAfterOptional(command.args)
        IN  /\ (result.status = "returned") <=> accepted
            /\ (result.status # "returned") => FailedWithConfigurationError
            /\ accepted => /\ HasOwn(commands, command.commandName)
                            /\ OwnGet(commands, command.commandName) = command

\* register accepted a list with required, optional and spread arguments
C1_Witness ==
    /\ RegisteredOneNamed
    /\ result.status = "returned"
    /\ Len(call.batch[1].args) = 3
    /\ ArgClass(call.batch[1].args[1]) = "required"
    /\ ArgClass(call.batch[1].args[2]) = "optional"
    /\ ArgClass(call.batch[1].args[3]) = "spread"

SpreadBeforeLast(args) ==
    \E i \in 1..(Len(args) - 1) : args[i].type = "spread"

\* C2: a Command Type whose argument list has a spread argument at any index
\* other than the last fails registration (register throws and the Command
\* Type is not stored), whatever the required flags of its arguments are.
C2_SpreadNotLastFails ==
    (call.op = "register" /\ Len(call.batch) = 1 /\ SpreadBeforeLast(call.batch[1].args)) =>
        /\ result.status = "threw"
        /\ \A i \in 1..Len(commands) : commands[i].value # call.batch[1]

\* register rejected a named list whose first argument is a required spread
\* followed by required arguments only: nothing but the spread is out of place
C2_Witness ==
    /\ RegisteredOneNamed
    /\ Len(call.batch[1].args) = 3
    /\ call.batch[1].args[1].type = "spread"
    /\ \A i \in 1..3 : call.batch[1].args[i].required
    /\ result.status = "threw"

----------------------------------------------------------------------------
(* Claims C3, C4: register stores in order, and the last store wins *)

\* the own property of obj under k, undefined when there is none
Own(obj, k) == IF HasOwn(obj, k) THEN OwnGet(obj, k) ELSE Undefined

\* the position of the first Command Type of the batch that fails validation,
\* Len(batch) + 1 when none does
FirstInvalid(batch) ==
    IF \E i \in 1..Len(batch) : ValidateCommand(batch[i]) # NoError
    THEN CHOOSE i \in 1..Len(batch) :
            /\ ValidateCommand(batch[i]) # NoError
            /\ \A j \in 1..(i - 1) : ValidateCommand(batch[j]) = NoError
    ELSE Len(batch) + 1

\* the positions before k of the Command Types named name
NamedBefore(batch, k, name) ==
    { j \in 1..(k - 1) : batch[j].commandName = name }

LastOf(S) == CHOOSE j \in S : \A i \in S : i <= j

RegisterFailsMidBatch(c, r) ==
    /\ c.op = "register"
    /\ FirstInvalid(c.batch) <= Len(c.batch)
    /\ r.status = "threw"
    /\ r.error = ValidateCommand(c.batch[FirstInvalid(c.batch)])

\* the Command Types before position k are stored, a later one of the same
\* name overwriting an earlier one
StoredBefore(batch, k, after) ==
    \A i \in 1..(k - 1) :
        Own(after, batch[i].commandName)
            = batch[LastOf(NamedBefore(batch, k, batch[i].commandName))]

\* C3 as claimed: when the k-th Command Type of a batch fails validation,
\* register raises at that element; the Command Types before k are stored and
\* the registry entries under the names of the k-th and later ones are exactly
\* what they were before the call.
C3_AsClaimed ==
    [][ (call'.op = "register" /\ FirstInvalid(call'.batch) <= Len(call'.batch)) =>
            LET batch == call'.batch
                k == FirstInvalid(batch)
            IN  /\ RegisterFailsMidBatch(call', result')
                /\ StoredBefore(batch, k, commands')
                /\ \A i \in k..Len(batch) :
                      Own(commands', batch[i].commandName)
                          = Own(commands, batch[i].commandName) ]_vars

\* C3 as amended: when the k-th Command Type of a batch fails validation,
\* register raises at that element; the Command Types before k are stored and
\* the registry entry under the name of the k-th or a later one is what it was
\* before the call, unless a Command Type before k has that name: then it is
\* the last such Command Type.
C3_PartialRegistration ==
    [][ (call'.op = "register" /\ FirstInvalid(call'.batch) <= Len(call'.batch)) =>
            LET batch == call'.batch
                k == FirstInvalid(batch)
            IN  /\ RegisterFailsMidBatch(call', result')
                /\ StoredBefore(batch, k, commands')
                /\ \A i \in k..Len(batch) :
                      LET name == batch[i].commandName IN
                      IF NamedBefore(batch, k, name) # {}
                      THEN Own(commands', name) = batch[LastOf(NamedBefore(batch, k, name))]
                      ELSE Own(commands', name) = Own(commands, name) ]_vars

\* register stored the first Command Type of a batch and failed on the second,
\* which has the same name
C3_Witness ==
    /\ call.op = "register"
    /\ Len(call.batch) = 2
    /\ FirstInvalid(call.batch) = 2
    /\ result.status = "threw"
    /\ call.batch[2].commandName = call.batch[1].commandName
    /\ Own(commands, call.batch[1].commandName) = call.batch[1]

\* a register step leaves under every name the last Command Type of the
\* batch's valid prefix that has the name, and what was there when none has
RegisterStoresLast ==
    call'.op = "register" =>
        LET batch == call'.batch
            k == FirstInvalid(batch)
            names == { batch[i].commandName : i \in 1..Len(batch) }
                        \cup { commands[i].key : i \in 1..Len(commands) }
                        \cup { commands'[i].key : i \in 1..Len(commands') }
        IN  \A name \in names :
                IF NamedBefore(batch, k, name) # {}
                THEN Own(commands', name) = batch[LastOf(NamedBefore(batch, k, name))]
                ELSE Own(commands', name) = Own(commands, name)

OneEntryPerName ==
    \A i, j \in 1..Len(commands) :
        /\ commands[i].value.commandName = commands[i].key
        /\ commands[i].key = commands[j].key => i = j

\* the events of the call that construct or invoke a command instance
Dispatches == { i \in 1..Len(trace) : trace[i].ev \in {"new", "handle"} }

\* a handle call under a registered name constructs and invokes nothing but
\* the Command Type stored under the name, never the one it displaced
DispatchesStoredOnly ==
    (call.op = "handle" /\ Len(call.argv) > 0 /\ HasOwn(commands, call.argv[1])) =>
        \A i \in Dispatches :
            /\ trace[i].command = OwnGet(commands, call.argv[1])
            /\ trace[i].command.cls # OwnGet(displaced.commands, call.argv[1])

\* C4: the registry holds at most one Command Type per commandName, the most
\* recently registered valid one, and a handle call under a name registered
\* twice constructs and invokes only the second Command Type, never the first.
C4_LastRegisteredWins ==
    /\ [][RegisterStoresLast]_vars
    /\ [](OneEntryPerName /\ DispatchesStoredOnly)

\* a handle call constructed and invoked the Command Type that displaced
\* another one registered under the same name before
C4_Witness ==
    /\ call.op = "handle"
    /\ Len(call.argv) > 0
    /\ HasOwn(commands, call.argv[1])
    /\ OwnGet(displaced.commands, call.argv[1]) # "none"
    /\ \E i, j \in Dispatches : trace[i].ev = "new" /\ trace[j].ev = "handle"

----------------------------------------------------------------------------
(* Claim C5: the last handler registered for a global flag is the one fired *)

\* the parse result of the call, when its parse returned
Parsed == { trace[i].options : i \in { j \in 1..Len(trace) : trace[j].ev = "parse" } }

\* a value for which a flag's handler fires: not undefined and, when a
\* string or an array, not empty
FiringValue(value) ==
    /\ value.t # "undefined"
    /\ value.t \in {"string", "array"} => Len(value.v) > 0

\* how many times the call invoked handler for the flag name
Fired(name, handler) ==
    Cardinality({ i \in 1..Len(trace) :
                    /\ trace[i].ev = "flag"
                    /\ trace[i].name = name
                    /\ trace[i].handler = handler })

KeyIndex(obj, k) == CHOOSE i \in 1..Len(obj) : obj[i].key = k

\* the call ended with the failure of the handler of the flag it fired last
FailedFlags ==
    IF result.status = "threw" /\ result.error.kind = "HandlerError"
    THEN { trace[Len(trace)].name }
    ELSE {}

\* the handler of a flag enumerated before name failed in the call
FailedBefore(name) ==
    \E failed \in FailedFlags : KeyIndex(flags, failed) < KeyIndex(flags, name)

\* the flags registered twice, the second handler h2 displacing another, h1
FlaggedTwice == { i \in 1..Len(flags) : OwnGet(displaced.flags, flags[i].key) # "none" }

\* C5 as claimed: after flag(name, h1) and then flag(name, h2), a handle call
\* whose parse result carries a firing value for the flag invokes h2 exactly
\* once and never h1.
C5_AsClaimed ==
    call.op = "handle" =>
        \A options \in Parsed : \A i \in FlaggedTwice :
            FiringValue(Get(options, flags[i].key)) =>
                /\ Fired(flags[i].key, flags[i].value.handler) = 1
                /\ Fired(flags[i].key, OwnGet(displaced.flags, flags[i].key)) = 0

\* C5 as amended: after flag(name, h1) and then flag(name, h2), a handle call
\* whose parse result carries a firing value for the flag never invokes h1,
\* and invokes h2 exactly once unless the handler of a global flag enumerated
\* before name fails in that call: then h2 is not invoked.
C5_SecondHandlerFires ==
    call.op = "handle" =>
        \A options \in Parsed : \A i \in FlaggedTwice :
            FiringValue(Get(options, flags[i].key)) =>
                /\ flags[i].value.handler # OwnGet(displaced.flags, flags[i].key)
                /\ Fired(flags[i].key, flags[i].value.handler)
                      = IF FailedBefore(flags[i].key) THEN 0 ELSE 1
                /\ Fired(flags[i].key, OwnGet(displaced.flags, flags[i].key)) = 0

\* a handle call fired, once, the second handler of a flag registered twice
C5_Witness ==
    /\ call.op = "handle"
    /\ \E options \in Parsed : \E i \in FlaggedTwice :
            /\ FiringValue(Get(options, flags[i].key))
            /\ Fired(flags[i].key, flags[i].value.handler) = 1

----------------------------------------------------------------------------
(* Claim C6: handle of an empty argv *)

\* C6: handle called with an empty argv completes with no effect in every
\* state: it resolves with undefined, nothing is parsed, no handler fires, no
\* command instance is constructed or invoked, and both registries and the
\* argv are unchanged.
C6_EmptyArgvNoEffect ==
    [][ (call'.op = "handle" /\ call'.argv = <<>>) =>
            /\ result' = Returned(Undefined)
            /\ trace' = <<>>
            /\ argvNow' = <<>>
            /\ commands' = commands
            /\ flags' = flags ]_vars

\* handle([]) was called on a kernel with commands and global flags registered
C6_Witness ==
    /\ call.op = "handle"
    /\ call.argv = <<>>
    /\ Len(commands) > 0
    /\ Len(flags) > 0
    /\ result.status = "returned"

----------------------------------------------------------------------------
(* Claim C7: handle of an argv that starts with a flag *)

StartsWithDash(str) == Len(str) > 0 /\ str[1] = "-"

FlagsOnlyCall ==
    /\ call.op = "handle"
    /\ Len(call.argv) > 0
    /\ StartsWithDash(call.argv[1])

\* the call parsed the whole argv against the global flags only, and did
\* nothing but fire handlers after that, each with the parsed value of its
\* flag and with no command
ParsedWholeArgvThenFired ==
    /\ Len(trace) >= 1
    /\ trace[1].ev = "parse"
    /\ trace[1].argv = call.argv
    /\ trace[1].command = Undefined
    /\ \A i \in 2..Len(trace) :
          /\ trace[i].ev = "flag"
          /\ trace[i].command = Undefined
          /\ trace[i].options = trace[1].options
          /\ trace[i].value = Get(trace[1].options, trace[i].name)

\* C7 as claimed: whenever argv[0] starts with "-", handle parses the whole
\* argv against the global flags, fires the handler of every flag with a
\* firing value (no command as context) and completes, without constructing
\* or invoking a command instance.
C7_AsClaimed ==
    FlagsOnlyCall =>
        /\ ParsedWholeArgvThenFired
        /\ \A i \in 1..Len(flags) :
              Fired(flags[i].key, flags[i].value.handler)
                  = IF FiringValue(Get(trace[1].options, flags[i].key)) THEN 1 ELSE 0
        /\ result = Returned(Undefined)

\* C7 as amended: whenever argv[0] starts with "-", handle parses the whole
\* argv against the global flags and fires the handlers of the flags with a
\* firing value (no command as context) in the enumeration order of the
\* registry up to the first one that fails; it completes, or fails with that handler's failure, without
\* constructing or invoking a command instance, even when a later element of
\* argv names a registered command.
C7_FlagsOnlyPath ==
    FlagsOnlyCall =>
        /\ ParsedWholeArgvThenFired
        /\ \A i \in 1..Len(flags) :
              Fired(flags[i].key, flags[i].value.handler)
                  = IF /\ FiringValue(Get(trace[1].options, flags[i].key))
                       /\ ~FailedBefore(flags[i].key)
                    THEN 1 ELSE 0
        /\ \/ result = Returned(Undefined)
           \/ /\ result = Threw(HandlerError(trace[Len(trace)].handler))
              /\ HandlerThrows(trace[Len(trace)].handler)

\* a flags-only call fired a handler and completed although a later element
\* of argv names a registered command
C7_Witness ==
    /\ FlagsOnlyCall
    /\ Len(trace) >= 2
    /\ result = Returned(Undefined)
    /\ \E i \in 2..Len(call.argv) : HasOwn(commands, call.argv[i])

----------------------------------------------------------------------------
(* Claim C8: handle of an unknown command *)

UnknownCommandCall ==
    /\ call.op = "handle"
    /\ Len(call.argv) > 0
    /\ ~StartsWithDash(call.argv[1])
    /\ ~HasOwn(commands, call.argv[1])

\* C8: when argv is non-empty, argv[0] does not start with "-" and no Command
\* Type is registered under argv[0], handle fails with an UnknownCommandError
\* naming argv[0] before any other step: no parse, no global flag handler
\* fires and no command instance is constructed.
C8_UnknownCommandFails ==
    UnknownCommandCall =>
        /\ result = Threw(UnknownCommandError(call.argv[1]))
        /\ \A i \in 1..Len(trace) : trace[i].ev = "find"

\* the same for the names that Object.prototype does not define
C8_UnlessInherited ==
    (UnknownCommandCall /\ call.argv[1] \notin ObjectPrototypeKeys) =>
        /\ result = Threw(UnknownCommandError(call.argv[1]))
        /\ \A i \in 1..Len(trace) : trace[i].ev = "find"

----------------------------------------------------------------------------
(* Claims C9, C10: the command-matched path *)

CommandMatched ==
    /\ call.op = "handle"
    /\ Len(call.argv) > 0
    /\ ~StartsWithDash(call.argv[1])
    /\ HasOwn(commands, call.argv[1])

Invocations == { i \in 1..Len(trace) : trace[i].ev = "handle" }

\* what the field of the argument at index i (from 1) is to hold
ExpectedField(arg, i, positionals) ==
    IF arg.type = "spread" THEN JsArray(SubSeq(positionals, i, Len(positionals)))
    ELSE IF i <= Len(positionals) THEN positionals[i]
    ELSE Undefined

HandlerFailed == result.status = "threw" /\ result.error.kind = "HandlerError"

\* C9: on the command-matched path the instance handed to the command's
\* handle() is a new one whose argument fields hold the parsed positionals by
\* index: a plain argument positional i, undefined when there is none, a
\* spread argument all positionals from i on; and the command is invoked
\* however few positionals there are (only a failing flag handler stops it).
C9_ArgumentsPopulated ==
    CommandMatched =>
        /\ ~HandlerFailed => Invocations # {}
        /\ \A h \in Invocations : \A options \in Parsed :
              LET command == trace[h].command
                  positionals == OwnGet(options, sUnderscore).v
              IN  /\ h > 1
                  /\ trace[h - 1] = NewEvent(command)
                  /\ \A i \in 1..Len(command.args) :
                        /\ HasOwn(trace[h].instance, command.args[i].name)
                        /\ OwnGet(trace[h].instance, command.args[i].name)
                              = ExpectedField(command.args[i], i, positionals)

\* a command was invoked with a required argument left undefined and with a
\* spread argument or a second argument populated
C9_Witness ==
    /\ CommandMatched
    /\ \E h \in Invocations : \E i \in 1..Len(trace[h].command.args) :
          /\ trace[h].command.args[i].required
          /\ OwnGet(trace[h].instance, trace[h].command.args[i].name) = Undefined
          /\ i > 1
          /\ OwnGet(trace[h].instance, trace[h].command.args[1].name) # Undefined

StepRank(event) ==
    CASE event.ev = "find" -> 1
      [] event.ev = "parse" -> 2
      [] event.ev = "flag" -> 3
      [] event.ev = "new" -> 4
      [] event.ev = "handle" -> 5
      [] OTHER -> 0

\* C10: a handle call that resolves a registered command goes through lookup,
\* parse, global flag firing, instance construction and handle() invocation
\* in that order: every global flag handler fires after the lookup and the
\* parse, before the instance is constructed and before handle() starts, and
\* receives the resolved Command Type as context.
C10_StepOrder ==
    CommandMatched =>
        /\ Len(trace) >= 2
        /\ trace[1] = FindEvent(call.argv[1], TRUE)
        /\ trace[2].ev = "parse"
        /\ trace[2].command = OwnGet(commands, call.argv[1])
        /\ \A i, j \in 1..Len(trace) :
              i < j => /\ StepRank(trace[i]) <= StepRank(trace[j])
                       /\ StepRank(trace[i]) = StepRank(trace[j]) => trace[i].ev = "flag"
        /\ \A i \in 1..Len(trace) :
              trace[i].ev = "flag" => trace[i].command = OwnGet(commands, call.argv[1])
        /\ Invocations # {} => \E i \in 1..Len(trace) : trace[i].ev = "new"

\* a call fired a global flag handler and then constructed and invoked the
\* command
C10_Witness ==
    /\ CommandMatched
    /\ Invocations # {}
    /\ \E i \in 1..Len(trace) : trace[i].ev = "flag"

----------------------------------------------------------------------------
(* Claim C11: the outcome of the command body is the outcome of handle *)

\* what the body of a Command Type settles with when it is invoked
BodyOutcome(command) ==
    IF command.body = "rejects"
    THEN [status |-> "threw", error |-> [t |-> "error", kind |-> "CommandError", of |-> command.cls]]
    ELSE [status |-> "returned", value |-> [t |-> "result", of |-> command.cls]]

\* C11 as claimed: on the command-matched path the command body is invoked
\* exactly once in the call and the outcome of Kernel.handle is the outcome of
\* that body: its result, or its failure unchanged.
C11_AsClaimed ==
    CommandMatched =>
        /\ Cardinality(Invocations) = 1
        /\ \A h \in Invocations : result = BodyOutcome(trace[h].command)

\* C11 as amended: on the command-matched path, unless a global flag handler
\* fails in the call, the command body is invoked exactly once and the outcome
\* of Kernel.handle is the outcome of that body: its result, or its failure
\* unchanged; when a global flag handler fails the body is not invoked and
\* handle fails with the handler's failure.
C11_BodyOutcomeIsOutcome ==
    CommandMatched =>
        IF \E i \in 1..Len(trace) : trace[i].ev = "flag" /\ HandlerThrows(trace[i].handler)
        THEN /\ Invocations = {}
             /\ result = Threw(HandlerError(trace[Len(trace)].handler))
        ELSE /\ Cardinality(Invocations) = 1
             /\ \A h \in Invocations :
                   /\ h = Len(trace)
                   /\ trace[h].command = OwnGet(commands, call.argv[1])
                   /\ result = BodyOutcome(trace[h].command)

\* a command body was invoked and failed, and handle failed with its failure
C11_Witness ==
    /\ CommandMatched
    /\ Cardinality(Invocations) = 1
    /\ result.status = "threw"
    /\ result.error.kind = "CommandError"

----------------------------------------------------------------------------
(* Claim C12: the values for which a global flag's handler fires *)

\* every handler the call fired got the parsed value of its flag and the
\* whole parse result
FiredWithParsed ==
    \A options \in Parsed : \A i \in 1..Len(trace) :
        trace[i].ev = "flag" =>
            /\ trace[i].value = Get(options, trace[i].name)
            /\ trace[i].options = options
            /\ trace[i].handler = OwnGet(flags, trace[i].name).handler

\* C12 as claimed: in a handle call the handler of a global flag fires if and
\* only if the parsed value of the flag is not undefined and, when it is a
\* string or an array, not empty (so false and 0 fire it), and the handler
\* receives the parsed value and the whole parse result.
C12_AsClaimed ==
    FlagsOnlyCall =>
        /\ FiredWithParsed
        /\ \A options \in Parsed : \A i \in 1..Len(flags) :
              Fired(flags[i].key, flags[i].value.handler)
                  = IF FiringValue(Get(options, flags[i].key)) THEN 1 ELSE 0

\* C12 as amended: in a handle call the handler of a global flag fires if and
\* only if the parsed value of the flag is not undefined and, when it is a
\* string or an array, not empty (so false and 0 fire it), and no handler fired
\* before it in the call has failed; the handler receives the parsed value and
\* the whole parse result.
C12_FiresOnPresentValue ==
    FlagsOnlyCall =>
        /\ FiredWithParsed
        /\ \A options \in Parsed : \A i \in 1..Len(flags) :
              Fired(flags[i].key, flags[i].value.handler)
                  = IF /\ FiringValue(Get(options, flags[i].key))
                       /\ ~FailedBefore(flags[i].key)
                    THEN 1 ELSE 0

\* a call fired one handler with false and one with 0, and skipped none of
\* the flags it had a value for
C12_Witness ==
    /\ FlagsOnlyCall
    /\ \E i, j \in 1..Len(trace) :
          /\ trace[i].ev = "flag" /\ trace[i].value = JsBoolean(FALSE)
          /\ trace[j].ev = "flag" /\ trace[j].value = JsNumber(0)

----------------------------------------------------------------------------
(* Claim C13: find *)

\* the Command Type registered under exactly argv[0], null when there is none
RegisteredUnderFirst(argv) ==
    IF Len(argv) > 0 /\ HasOwn(commands, argv[1])
    THEN OwnGet(commands, argv[1])
    ELSE Null

\* C13: find(argv) returns the Command Type registered under exactly argv[0]
\* when there is one and null otherwise, whatever the later elements of argv
\* are, and leaves argv as it was.
C13_FindExact ==
    call.op = "find" =>
        /\ result = Returned(RegisteredUnderFirst(call.argv))
        /\ argvNow = call.argv

\* the same for every argv[0] that Object.prototype does not define
C13_UnlessInherited ==
    (call.op = "find" /\ ~FindsInherited(call.argv)) =>
        /\ result = Returned(RegisteredUnderFirst(call.argv))
        /\ argvNow = call.argv

\* find changes neither registry
C13_FindReadsOnly ==
    [][ call'.op = "find" => commands' = commands /\ flags' = flags ]_vars

----------------------------------------------------------------------------
(* Claim C14: getSuggestions *)

SuggestionsCall == call.op = "getSuggestions"

\* the registered names whose edit distance to the name asked is at most the
\* distance asked, 3 when none is asked
NearNames ==
    { commands[i].key : i \in { j \in 1..Len(commands) :
        Levenshtein(call.name, commands[j].key)
            <= (IF call.distance = Undefined THEN 3 ELSE call.distance.v) } }

\* the place of a command name in the order of the first register for it
InsertedAt(name) ==
    CHOOSE i \in 1..Len(displaced.commands) : displaced.commands[i].key = name

\* a is listed ahead of b: array-index names first, by their number, then the
\* other names as inserted
ListedAhead(a, b) ==
    CASE IsArrayIndex(a) /\ IsArrayIndex(b) -> IndexValue(a) < IndexValue(b)
      [] IsArrayIndex(a) /\ ~IsArrayIndex(b) -> TRUE
      [] ~IsArrayIndex(a) /\ IsArrayIndex(b) -> FALSE
      [] OTHER -> InsertedAt(a) < InsertedAt(b)

\* the call returned exactly the near names, each once
ReturnedNearNamesOnce ==
    /\ result.status = "returned"
    /\ result.value.t = "array"
    /\ { result.value.v[i].v : i \in 1..Len(result.value.v) } = NearNames
    /\ Len(result.value.v) = Cardinality(NearNames)

QueryReadsOnly ==
    [][ call'.op = "getSuggestions" => commands' = commands /\ flags' = flags ]_vars

\* handle asks for no suggestions: an unknown command fails with its name only
HandleSuggestsNothing ==
    (call.op = "handle" /\ result.status = "threw"
        /\ result.error.kind = "UnknownCommandError") =>
        /\ result.error = UnknownCommandError(call.argv[1])
        /\ \A i \in 1..Len(trace) : trace[i].ev = "find"

\* C14 as claimed: getSuggestions(name, distance) returns exactly the
\* registered names within the distance (3 by default), each once, in the
\* order in which the names were inserted into the registry; it changes
\* neither registry and handle does not call it.
C14_AsClaimed ==
    SuggestionsCall =>
        /\ ReturnedNearNamesOnce
        /\ \A i, j \in 1..Len(result.value.v) :
              i < j => InsertedAt(result.value.v[i].v) < InsertedAt(result.value.v[j].v)

\* C14 as amended: getSuggestions(name, distance) returns exactly the
\* registered names within the distance (3 by default), each once, in the
\* enumeration order of the registry and not by similarity: the names that
\* are array indices ("2", "10") first, in ascending numeric order, then
\* every other name in insertion order; it changes neither registry and
\* handle does not call it.
C14_SuggestionsListed ==
    /\ [](SuggestionsCall =>
            /\ ReturnedNearNamesOnce
            /\ \A i, j \in 1..Len(result.value.v) :
                  i < j => ListedAhead(result.value.v[i].v, result.value.v[j].v))
    /\ [](HandleSuggestsNothing)
    /\ QueryReadsOnly

\* a call with the default distance returned three names, a nearer one after
\* a farther one, and left a registered name out
C14_Witness ==
    /\ SuggestionsCall
    /\ call.distance = Undefined
    /\ ReturnedNearNamesOnce
    /\ Len(result.value.v) = 3
    /\ Levenshtein(call.name, result.value.v[2].v) > Levenshtein(call.name, result.value.v[3].v)
    /\ Len(commands) = 4

----------------------------------------------------------------------------
(* Claim C15: the argument lists of the Command Types register accepts *)

RegisterAcceptedOne ==
    /\ call.op = "register"
    /\ Len(call.batch) = 1
    /\ result.status = "returned"

\* how many optional arguments precede the argument at index j
OptionalBefore(args, j) == Cardinality({ i \in 1..(j - 1) : ~args[i].required })

SpreadOnlyLast(args) == \A i \in 1..Len(args) : args[i].type = "spread" => i = Len(args)

\* C15 as claimed: in every Command Type that register accepts, at most one
\* optional argument precedes any argument of the list, and a spread
\* argument, if there is one, is the last of the list.
C15_AsClaimed ==
    RegisterAcceptedOne =>
        LET args == call.batch[1].args IN
        /\ \A j \in 1..Len(args) : OptionalBefore(args, j) <= 1
        /\ SpreadOnlyLast(args)

\* C15 as amended: in every Command Type that register accepts, no required
\* argument is preceded by an optional one (an optional argument is preceded
\* by any number of optional ones), and a spread argument, if there is one,
\* is the last of the list.
C15_AcceptedShape ==
    RegisterAcceptedOne =>
        LET args == call.batch[1].args IN
        /\ \A j \in 1..Len(args) : args[j].required => OptionalBefore(args, j) = 0
        /\ SpreadOnlyLast(args)
        /\ call.batch[1].commandName # EmptyString

\* register accepted a list whose last argument has two optional ones before
\* it
C15_Witness ==
    /\ RegisterAcceptedOne
    /\ Len(call.batch[1].args) = 3
    /\ OptionalBefore(call.batch[1].args, 3) = 2
    /\ Own(commands, call.batch[1].commandName) = call.batch[1]

----------------------------------------------------------------------------
(* Claim C16: the order in which the global flag handlers fire *)

\* the handlers the call fired, as positions of the trace
Firings == { i \in 1..Len(trace) : trace[i].ev = "flag" }

\* the place of a flag name in the order of the first flag() call for it
RegisteredAt(name) == CHOOSE i \in 1..Len(displaced.flags) : displaced.flags[i].key = name

\* a fires ahead of b: array-index names first, by their number, then the
\* other names as registered
FiresAhead(a, b) ==
    CASE IsArrayIndex(a) /\ IsArrayIndex(b) -> IndexValue(a) < IndexValue(b)
      [] IsArrayIndex(a) /\ ~IsArrayIndex(b) -> TRUE
      [] ~IsArrayIndex(a) /\ IsArrayIndex(b) -> FALSE
      [] OTHER -> RegisteredAt(a) < RegisteredAt(b)

\* C16 as claimed: the handlers fired in one handle call are invoked in the
\* order in which their flag names were registered with flag(), whatever the
\* order of the flags on the command line.
C16_AsClaimed ==
    call.op = "handle" =>
        \A i, j \in Firings :
            i < j => RegisteredAt(trace[i].name) < RegisteredAt(trace[j].name)

\* C16 as amended: the handlers fired in one handle call are invoked in the
\* enumeration order of the global flag registry, whatever the order of the
\* flags on the command line: the flag names that are array indices ("1",
\* "2") first, in ascending numeric order, then every other name in the order
\* in which the names were first registered with flag().
C16_FiringOrder ==
    call.op = "handle" =>
        \A i, j \in Firings :
            i < j => FiresAhead(trace[i].name, trace[j].name)

\* three handlers fired in one call: two flags that are not array indices,
\* the one registered first ahead of the other, which the parse result holds
\* first
C16_Witness ==
    /\ call.op = "handle"
    /\ Cardinality(Firings) >= 3
    /\ \E options \in Parsed : \E i, j \in Firings :
          /\ i < j
          /\ ~IsArrayIndex(trace[i].name) /\ ~IsArrayIndex(trace[j].name)
          /\ KeyIndex(options, trace[j].name) < KeyIndex(options, trace[i].name)

----------------------------------------------------------------------------
(* Claim C17: a global flag handler that fails *)

\* the handlers the call invoked that raise
FailedFirings == { i \in 1..Len(trace) : trace[i].ev = "flag" /\ HandlerThrows(trace[i].handler) }

\* the flags of the registry for which the parse result holds a firing value
FlagsToFire(options) == { i \in 1..Len(flags) : FiringValue(Get(options, flags[i].key)) }

\* C17: when a global flag handler raises, handle fails with that failure;
\* the handlers later in firing order are not invoked, no command instance
\* is constructed and no command is invoked; the handlers that fired before
\* it in the call have fired, once each.
C17_HandlerFailurePropagates ==
    call.op = "handle" =>
        \A k \in FailedFirings : \A options \in Parsed :
            /\ result = Threw(HandlerError(trace[k].handler))
            /\ k = Len(trace)
            /\ Dispatches = {}
            /\ \A i \in FlagsToFire(options) :
                  Fired(flags[i].key, flags[i].value.handler)
                      = IF i <= KeyIndex(flags, trace[k].name) THEN 1 ELSE 0

\* on the command-matched path a handler fired and the next one failed
C17_Witness ==
    /\ CommandMatched
    /\ FailedFirings # {}
    /\ Cardinality(Firings) = 2
    /\ result.status = "threw"

----------------------------------------------------------------------------
(* Claim C18: what the command registry holds in every reachable state *)

\* no required argument after an optional one, a spread argument only last
ShapeValid(args) ==
    /\ \A j \in 1..Len(args) : args[j].required => OptionalBefore(args, j) = 0
    /\ SpreadOnlyLast(args)

\* C18: in every reachable state every entry of the command registry is
\* stored under its own commandName, which is not empty, and has an argument
\* list that passes the validation of register; and no handle call fails
\* with the error of that validation.
C18_RegistryValid ==
    /\ \A i \in 1..Len(commands) :
          /\ commands[i].key = commands[i].value.commandName
          /\ commands[i].key # EmptyString
          /\ ShapeValid(commands[i].value.args)
    /\ call.op = "handle" =>
          ~(result.status = "threw" /\ result.error.kind = "ConfigurationError")

\* register failed on a Command Type of its batch while the registry holds
\* two entries
C18_Witness ==
    /\ call.op = "register"
    /\ result.status = "threw"
    /\ Len(commands) = 2
    /\ \E i \in 1..Len(call.batch) : ~ShapeValid(call.batch[i].args)

----------------------------------------------------------------------------
(* Claim C19: what handle does to the caller's argv *)

\* C19: handle changes the caller's argv on the command-matched path only,
\* where it leaves the one-element sequence of argv[0]; on the empty, the
\* flags-only and the unknown-command path argv is left as it was.
C19_ArgvFrame ==
    call.op = "handle" =>
        argvNow = IF CommandMatched THEN <<call.argv[1]>> ELSE call.argv

\* the same for every argv[0] that Object.prototype does not define
C19_UnlessInherited ==
    (call.op = "handle" /\ ~FindsInherited(call.argv)) =>
        argvNow = IF CommandMatched THEN <<call.argv[1]>> ELSE call.argv

\* a second handle call with the argv the first one left dispatches the same
\* command with no positionals and no flag values
C19_SecondCallBare ==
    (CommandMatched /\ Len(call.argv) = 1) =>
        \A options \in Parsed :
            /\ OwnGet(options, sUnderscore) = JsArray(<<>>)
            /\ Len(options) = 1
            /\ \A i \in Dispatches : trace[i].command = OwnGet(commands, call.argv[1])

----------------------------------------------------------------------------
(* Claim C20: a Command Type whose name starts with "-" *)

DashNamedRegistered(argv) ==
    /\ Len(argv) > 0
    /\ StartsWithDash(argv[1])
    /\ HasOwn(commands, argv[1])

\* register stores a dash-named Command Type like any other: a register that
\* returns has stored it, and one that fails has met an empty name or an
\* argument list of a wrong shape
DashNameAccepted ==
    call.op = "register" =>
        /\ result.status = "returned" =>
              \A i \in 1..Len(call.batch) :
                  StartsWithDash(call.batch[i].commandName) =>
                      HasOwn(commands, call.batch[i].commandName)
        /\ result.status = "threw" =>
              \E i \in 1..Len(call.batch) :
                  \/ call.batch[i].commandName = EmptyString
                  \/ ~ShapeValid(call.batch[i].args)

\* C20: register accepts a Command Type whose commandName starts with "-",
\* but for every argv whose first element is that name handle takes the
\* flags-only path and neither constructs nor invokes the command, although
\* find(argv) returns it.
C20_DashNamedNotDispatchable ==
    /\ DashNameAccepted
    /\ (call.op = "handle" /\ DashNamedRegistered(call.argv)) =>
          /\ Dispatches = {}
          /\ trace[1].ev = "parse"
          /\ trace[1].argv = call.argv
          /\ trace[1].command = Undefined
          /\ \A i \in 2..Len(trace) : trace[i].ev = "flag" /\ trace[i].command = Undefined
          /\ argvNow = call.argv
    /\ (call.op = "find" /\ DashNamedRegistered(call.argv)) =>
          /\ result = Returned(OwnGet(commands, call.argv[1]))
          /\ StartsWithDash(result.value.commandName)

\* handle was called with the name of a registered dash-named command first
\* and completed
C20_Witness ==
    /\ call.op = "handle"
    /\ DashNamedRegistered(call.argv)
    /\ OwnGet(commands, call.argv[1]).commandName = call.argv[1]
    /\ result = Returned(Undefined)

====
